---- MODULE Spec2Model ----
(***************************************************************************)
(* SlurmSpawner (src/slurmspawner/slurmspawner.py): a JupyterHub spawner   *)
(* that runs the single-user server as a Slurm batch job.                  *)
(*                                                                         *)
(* Two threads run the spawner's code: the hub's event loop, which runs    *)
(* the coroutines start(), poll() and stop() one at a time between their   *)
(* yields, and the single worker of the class-wide ThreadPoolExecutor(1),  *)
(* which runs _run_jupyterhub_singleuser and _stop_slurm_job.  The Slurm   *)
(* controller is the environment: jobs change state on their own and a     *)
(* squeue or sbatch command may fail, which leaves its stdout empty.       *)
(*                                                                         *)
(* Text is modelled as text: a Python str is a sequence of one-character   *)
(* strings, so strip(), split() and the `in` substring test are computed.  *)
(* A Python value that is not a str is a sequence that starts with a       *)
(* marker no text can start with (None, the int 1, an int port).           *)
(***************************************************************************)
EXTENDS Integers, Sequences, FiniteSets, TLC

\* ------------------------------------------------------------------ bounds
\* Jobs the scheduler accepts in one run; a further sbatch is rejected.
MaxJobs == 2

\* Lines of a listing handed to discovery on its own.
MaxLines == 3

\* The id the scheduler gives the first job it accepts.
FirstJobId == 209

\* ------------------------------------------------------------ Python text
EmptyStr == << >>

IsSpace(c) == c \in {" ", "\n", "\t"}

RECURSIVE LStrip(_)
LStrip(s) ==
    IF s = << >> THEN s
    ELSE IF IsSpace(Head(s)) THEN LStrip(Tail(s)) ELSE s

RECURSIVE RStrip(_)
RStrip(s) ==
    IF s = << >> THEN s
    ELSE IF IsSpace(s[Len(s)]) THEN RStrip(SubSeq(s, 1, Len(s) - 1)) ELSE s

\* str.strip()
Strip(s) == RStrip(LStrip(s))

RECURSIVE SplitWsAcc(_, _, _)
SplitWsAcc(s, cur, out) ==
    IF s = << >> THEN (IF cur = << >> THEN out ELSE Append(out, cur))
    ELSE IF IsSpace(Head(s))
         THEN SplitWsAcc(Tail(s), << >>, IF cur = << >> THEN out ELSE Append(out, cur))
         ELSE SplitWsAcc(Tail(s), Append(cur, Head(s)), out)

\* str.split(): the words between runs of whitespace, never an empty word
SplitWs(s) == SplitWsAcc(s, << >>, << >>)

RECURSIVE SplitSpAcc(_, _, _)
SplitSpAcc(s, cur, out) ==
    IF s = << >> THEN Append(out, cur)
    ELSE IF Head(s) = " "
         THEN SplitSpAcc(Tail(s), << >>, Append(out, cur))
         ELSE SplitSpAcc(Tail(s), Append(cur, Head(s)), out)

\* str.split(' '): cut at every single blank; "" gives [""]
SplitSp(s) == SplitSpAcc(s, << >>, << >>)

\* the last element of a Python list, lst[-1]
Last(lst) == lst[Len(lst)]

\* needle in hay, for two str
Contains(needle, hay) ==
    \E i \in 1..(Len(hay) - Len(needle) + 1) :
        SubSeq(hay, i, i + Len(needle) - 1) = needle

Digits == <<"0", "1", "2", "3", "4", "5", "6", "7", "8", "9">>

RECURSIVE Str(_)
\* str(n) for a natural number n
Str(n) == IF n < 10 THEN <<Digits[n + 1]>> ELSE Str(n \div 10) \o <<Digits[(n % 10) + 1]>>

\* Python values that are not text
None == <<"<None>">>
IntMark == "<int>"
PyInt(n) == <<IntMark>> \o Str(n)
\* an attribute that was never assigned
Unset == <<"<unset>">>

\* ------------------------------------------------------- scheduler tokens
RUNNING == <<"R", "U", "N", "N", "I", "N", "G">>
PENDING == <<"P", "E", "N", "D", "I", "N", "G">>
CONFIGURING == <<"C", "O", "N", "F", "I", "G", "U", "R", "I", "N", "G">>
COMPLETING == <<"C", "O", "M", "P", "L", "E", "T", "I", "N", "G">>
COMPLETED == <<"C", "O", "M", "P", "L", "E", "T", "E", "D">>
CANCELLED == <<"C", "A", "N", "C", "E", "L", "L", "E", "D">>
FAILED == <<"F", "A", "I", "L", "E", "D">>

\* the tuple the cancel routine compares against
TerminalTokens == {CANCELLED, COMPLETED, FAILED, COMPLETING}

\* ------------------------------------------------------------------ users
User == {"alice", "bob"}

NodeName == <<"n", "o", "d", "e", "0", "3">>
NodeAddr == <<"1", "0", ".", "0", ".", "0", ".", "5">>

VARIABLES
    jobs,           \* the scheduler's jobs, in order of submission
    slurm_job_id,   \* self.slurm_job_id of each user's spawner
    slurm_port,     \* self.slurm_port
    server_ip,      \* self.user.server.ip
    server_port,    \* self.user.server.port
    startPc,        \* where the start() coroutine of each spawner stands
    stopPc,         \* where the stop() coroutine of each spawner stands
    queue,          \* the executor's work queue
    wtask,          \* the task the executor's one worker is running
    wpc,            \* the worker's position in that task
    runFuture,      \* the future of executor.submit(_run_jupyterhub_singleuser)
    stopFuture,     \* the future of executor.submit(_stop_slurm_job)
    callers,        \* the users whose spawner the hub drives
    calls,          \* the calls the hub makes: pairs of a user and a method
    moves,          \* the states the scheduler moves a job to on its own
    ports,          \* the ports random_port() can draw
    watch,          \* the records kept below: "poll", "start", "attach", "check"
    poll_ret,       \* what the last poll() returned
    lastStart,      \* how the last finished start() ended and what it left
    cancels,        \* scancel commands issued for the stop() in progress
    lastCheck,      \* the last check_slurm_job_state() call of each spawner
    listing,        \* a listing handed to query_slurm_by_jobname() on its own
    answer          \* what query_slurm_by_jobname() made of that listing

identity == <<slurm_job_id, slurm_port>>
server == <<server_ip, server_port>>
coroutines == <<startPc, stopPc>>
executor == <<queue, wtask, wpc>>
futures == <<runFuture, stopFuture>>
setup == <<callers, calls, moves, ports, watch>>
records == <<poll_ret, lastStart, cancels>>
\* what a step leaves alone unless it says otherwise
probe == <<listing, answer>>
rest == <<setup, lastCheck, probe>>

vars == <<jobs, identity, server, coroutines, executor, futures, rest, records>>

\* ------------------------------------------------- the scheduler's answers
JobId(j) == FirstJobId + j - 1

\* the jobs a command line names with the text idtext after -j
JobsNamed(idtext) == {j \in 1..Len(jobs) : Str(JobId(j)) = idtext}

\* squeue lists a job until the controller purges its record
Listed(j) == jobs[j].state # EmptyStr

\* without -t, squeue -u lists the jobs that are not finished
ActiveTokens == {PENDING, CONFIGURING, RUNNING, COMPLETING}

\* a job holds its node from allocation until its record is purged
HasNode(j) == jobs[j].state \in {CONFIGURING, RUNNING, COMPLETING, COMPLETED}

\* stdout of: squeue -h -j <idtext> -o %T
SqueueStateOut(idtext) ==
    IF \E j \in JobsNamed(idtext) : Listed(j)
    THEN LET j == CHOOSE k \in JobsNamed(idtext) : Listed(k)
         IN  jobs[j].state \o <<"\n">>
    ELSE EmptyStr

\* stdout of: squeue -h -j <idtext> -o %N.  With an empty id the command line
\* is malformed and squeue may report on any job (see the comment in
\* check_slurm_job_state), so every such answer is possible.
SqueueNodeOuts(idtext) ==
    IF idtext = EmptyStr
    THEN {EmptyStr} \cup {NodeName \o <<"\n">> : j \in {k \in 1..Len(jobs) : HasNode(k)}}
    ELSE IF \E j \in JobsNamed(idtext) : Listed(j)
         THEN LET j == CHOOSE k \in JobsNamed(idtext) : Listed(k)
              IN  {IF HasNode(j) THEN NodeName \o <<"\n">> ELSE <<"\n">>}
         ELSE {EmptyStr}

\* one line of squeue -O jobid,comment: two columns padded with blanks
ListingLine(id, comment) == id \o <<" ", " ">> \o comment \o <<" ", " ", "\n">>

RECURSIVE ListingFrom(_, _)
ListingFrom(j, user) ==
    IF j > Len(jobs) THEN EmptyStr
    ELSE (IF jobs[j].owner = user /\ jobs[j].state \in ActiveTokens
          THEN ListingLine(Str(JobId(j)), jobs[j].comment)
          ELSE EmptyStr) \o ListingFrom(j + 1, user)

\* stdout of: squeue -h -u <user> --name=<jobname> -O jobid,comment
SqueueListOut(user) == ListingFrom(1, user)

\* stdout of: host <node>
HostOut(node) ==
    node \o <<" ", "h", "a", "s", " ", "a", "d", "d", "r", "e", "s", "s", " ">>
         \o NodeAddr \o <<"\n">>

\* stdout of sbatch when it accepts the script
SbatchOut(id) ==
    <<"S", "u", "b", "m", "i", "t", "t", "e", "d", " ", "b", "a", "t", "c", "h", " ",
      "j", "o", "b", " ">> \o Str(id) \o <<"\n">>

\* scancel prints nothing on stdout; a site wrapper may echo the new state
ScancelOuts == {EmptyStr, CANCELLED \o <<"\n">>}

\* a job whose script lost its --comment line
NewJobUnlabelled(user, comment) == [owner |-> user, comment |-> EmptyStr, state |-> PENDING]

\* the job sbatch creates from the script: --uid, --comment=$port
NewJob(user, comment) == [owner |-> user, comment |-> comment, state |-> PENDING]

\* the moves a job makes on its own
NextStates(s) ==
    IF s = PENDING THEN {CONFIGURING, RUNNING, FAILED}
    ELSE IF s = CONFIGURING THEN {RUNNING}
    ELSE IF s = RUNNING THEN {COMPLETING, FAILED}
    ELSE IF s = COMPLETING THEN {COMPLETED}
    ELSE IF s \in {COMPLETED, FAILED, CANCELLED} THEN {EmptyStr}
    ELSE {}

\* the job record after a move; a purged record keeps nothing but its owner
Moved(job, s) ==
    IF s = EmptyStr THEN [job EXCEPT !.state = EmptyStr, !.comment = EmptyStr]
    ELSE [job EXCEPT !.state = s]

\* the jobs after scancel <idtext> reached the controller
Cancelled(idtext) ==
    [j \in 1..Len(jobs) |->
        IF j \in JobsNamed(idtext) /\ jobs[j].state \in {PENDING, CONFIGURING, RUNNING}
        THEN [jobs[j] EXCEPT !.state = CANCELLED]
        ELSE jobs[j]]

\* a failed squeue leaves stdout empty; stderr is not captured
SqueueStateOuts(idtext) == {SqueueStateOut(idtext), EmptyStr}
SqueueListOuts(user) == {SqueueListOut(user), EmptyStr}
NodeOuts(idtext) == SqueueNodeOuts(idtext) \cup {EmptyStr}

\* ----------------------------------------------------- the spawner's code
\* run_command(cmd), given the stdout the command wrote: stderr is not piped,
\* so out[1] is None and the result is the stripped stdout
run_command(stdout) == Strip(stdout)

\* check_slurm_job_state(), given the stdout squeue would write
check_slurm_job_state(id, stdout) ==
    IF id \in {None, EmptyStr} THEN EmptyStr ELSE run_command(stdout)

\* a state check that runs squeue whatever the job id
commands_issued_always(id) == 1

\* the external commands one check_slurm_job_state() call runs for a job id
commands_issued(id) == IF id \in {None, EmptyStr} THEN 0 ELSE 1

\* one check_slurm_job_state() call: the id it read, the commands it ran, what
\* it returned, the thread that made it
CheckRecord(id, stdout, thread) ==
    [id |-> id, cmds |-> commands_issued(id), out |-> check_slurm_job_state(id, stdout),
     thread |-> thread]

IndexError == <<"<IndexError>">>

\* discovery that reads the two columns in the wrong order
query_slurm_by_jobname_swapped(stdout) ==
    LET output_list == SplitWs(Strip(Strip(stdout)))
    IN  IF Len(output_list) > 1
        THEN <<output_list[2], output_list[1]>>
        ELSE <<EmptyStr, EmptyStr>>

\* query_slurm_by_jobname(user, jobname), given the stdout of squeue:
\* (jobid, port), or the IndexError of output_list[1]
query_slurm_by_jobname(stdout) ==
    LET output == Strip(run_command(stdout))
        output_list == SplitWs(output)
    IN  IF Len(output_list) > 0
        THEN IF Len(output_list) > 1
             THEN <<output_list[1], output_list[2]>>
             ELSE IndexError
        ELSE <<EmptyStr, EmptyStr>>

\* get_slurm_job_info(jobid), given the stdout of squeue -o %N: (node_ip, node_name)
get_slurm_job_info(stdout) ==
    LET node_name == Strip(stdout)
    IN  IF node_name \in {None, EmptyStr}
        THEN <<None, None>>
        ELSE <<Last(SplitSp(Strip(HostOut(node_name)))), node_name>>

\* poll() that takes only a running job for alive
poll_alive_running_only(state) == Contains(RUNNING, state)

\* what poll() does with the state it read: TRUE when it reports the job alive
poll_alive(state) == Contains(RUNNING, state) \/ Contains(PENDING, state)

\* a wait-loop that keeps waiting on whatever is not RUNNING
loop_branch_patient(state) ==
    IF Contains(RUNNING, state) THEN "break" ELSE "again"

\* the branch the wait-loop takes on its job_state
loop_branch(state) ==
    IF Contains(RUNNING, state) THEN "break"
    ELSE IF Contains(PENDING, state) THEN "again"
    ELSE "return1"

\* the job id _run_jupyterhub_singleuser reads off sbatch's stdout
submitted_id(stdout) == Last(SplitSp(Strip(stdout)))

\* is_stopped, as _stop_slurm_job computes it from scancel's stdout
cancel_confirmed(stdout) == run_command(stdout) \in TerminalTokens

\* ------------------------------------------------------------------ state
NoTask == [kind |-> "none", user |-> "", port |-> 0]
RunTask(u, p) == [kind |-> "run", user |-> u, port |-> p]
StopTask(u) == [kind |-> "stop", user |-> u, port |-> 0]

NoFuture == <<"<no future>">>
Pending == <<"<pending>">>
True == <<"<True>">>
False == <<"<False>">>

\* no state check made yet
NoCheck == [id |-> Unset, cmds |-> 0, out |-> Unset, thread |-> "none"]

NoStart ==
    [how |-> "none", ret |-> Unset, id |-> EmptyStr, ip |-> Unset, port |-> Unset,
     node |-> Unset]

\* the methods of the spawner the hub calls
Methods == {"start", "poll", "stop"}

\* every state a job can move to on its own; the empty one is the purge
Moves == {CONFIGURING, RUNNING, COMPLETING, COMPLETED, FAILED, EmptyStr}

InitWith(who, made, drawn, kept, taken) ==
    /\ jobs = << >>
    /\ slurm_job_id = [u \in User |-> EmptyStr]
    /\ slurm_port = [u \in User |-> Unset]
    /\ server_ip = [u \in User |-> Unset]
    /\ server_port = [u \in User |-> Unset]
    /\ startPc = [u \in User |-> "idle"]
    /\ stopPc = [u \in User |-> "idle"]
    /\ queue = << >>
    /\ wtask = NoTask
    /\ wpc = "idle"
    /\ runFuture = [u \in User |-> NoFuture]
    /\ stopFuture = [u \in User |-> NoFuture]
    /\ callers = who
    /\ calls = made
    /\ moves = taken
    /\ ports = drawn
    /\ watch = kept
    /\ poll_ret = [u \in User |-> Unset]
    /\ lastStart = [u \in User |-> NoStart]
    /\ cancels = [u \in User |-> 0]
    /\ lastCheck = [u \in User |-> NoCheck]
    /\ listing = << >>
    /\ answer = Unset

InitFor(who, drawn, kept) == InitWith(who, who \X Methods, drawn, kept, Moves)

Init == InitFor({"alice"}, {8891}, {})

\* ------------------------------------------------------------- scheduler
\* a job moves on by itself: it is allocated, starts, ends, is purged
SchedulerStep ==
    /\ \E j \in 1..Len(jobs) : \E s \in NextStates(jobs[j].state) \cap moves :
           jobs' = [jobs EXCEPT ![j] = Moved(jobs[j], s)]
    /\ UNCHANGED <<identity, server, coroutines, executor, futures, rest, records>>

\* ------------------------------------------------------------ event loop
\* the event loop runs one coroutine at a time, from one suspension to the
\* next: while a start() is between its discovery and the return of its attach
\* branch, which holds no yield, no other coroutine runs
LoopFree == \A u \in User : startPc[u] # "attach"

\* clear_state() that forgets the port
ClearJobIdOnly(u) ==
    /\ slurm_job_id' = [slurm_job_id EXCEPT ![u] = EmptyStr]
    /\ UNCHANGED slurm_port

\* clear_state(): both fields of the identity
ClearState(u) ==
    /\ slurm_job_id' = [slurm_job_id EXCEPT ![u] = EmptyStr]
    /\ slurm_port' = [slurm_port EXCEPT ![u] = EmptyStr]

\* what start() returns: a bare return after attaching, a bare return after
\* output == 1, the end of the function otherwise
start_return(how) ==
    IF how = "attached" THEN None
    ELSE IF how = "failed" THEN None
    ELSE None

\* what a start() that ended left behind
StartRecord(how, id, ip, port, node) ==
    [how |-> how, ret |-> start_return(how), id |-> id, ip |-> ip, port |-> port,
     node |-> node]

Noted(kind, old, new) == IF kind \in watch THEN new ELSE old

\* start(), from its call to its first suspension: discovery, then either the
\* attach branch or the submission handed to the executor
StartDiscover(u, stdout, p) ==
    LET found == query_slurm_by_jobname(stdout)
    IN  /\ LoopFree
        /\ u \in callers
        /\ <<u, "start">> \in calls
        /\ startPc[u] = "idle"
        /\ IF Len(found) = 1
           THEN /\ lastStart' = [lastStart EXCEPT ![u] =
                       Noted("start", @, [NoStart EXCEPT !.how = "raised"])]
                /\ UNCHANGED <<slurm_job_id, server_port, startPc, queue, runFuture>>
           ELSE /\ slurm_job_id' = [slurm_job_id EXCEPT ![u] = found[1]]
                /\ IF found[1] # EmptyStr /\ found[2] # EmptyStr
                   THEN /\ server_port' = [server_port EXCEPT ![u] = found[2]]
                        /\ startPc' = [startPc EXCEPT ![u] = "attach"]
                        /\ UNCHANGED <<queue, runFuture>>
                   ELSE /\ server_port' = [server_port EXCEPT ![u] = PyInt(p)]
                        /\ queue' = Append(queue, RunTask(u, p))
                        /\ runFuture' = [runFuture EXCEPT ![u] = Pending]
                        /\ startPc' = [startPc EXCEPT ![u] = "waiting"]
                /\ UNCHANGED lastStart
        /\ UNCHANGED <<jobs, slurm_port, server_ip, stopPc, wtask, wpc, stopFuture,
                       rest, poll_ret, cancels>>

StartBegin ==
    \E u \in User : \E stdout \in SqueueListOuts(u) : \E p \in ports :
        StartDiscover(u, stdout, p)

\* start(), attach branch: resolve the placement of the job found, return
StartResolve(u, stdout) ==
    LET info == get_slurm_job_info(stdout)
    IN  /\ startPc[u] = "attach"
        /\ server_ip' = [server_ip EXCEPT ![u] = info[1]]
        /\ startPc' = [startPc EXCEPT ![u] = "idle"]
        /\ lastStart' = [lastStart EXCEPT ![u] =
               Noted("attach", @, StartRecord("attached", slurm_job_id[u], info[1],
                                             server_port[u], info[2]))]
        /\ UNCHANGED <<jobs, identity, server_port, stopPc, executor, futures, rest,
                       poll_ret, cancels>>

StartAttach ==
    \E u \in User : \E stdout \in NodeOuts(slurm_job_id[u]) : StartResolve(u, stdout)

\* start(), resumed with the output of run_jupyterhub_singleuser
StartEnd(u) ==
    /\ LoopFree
    /\ startPc[u] = "waiting"
    /\ runFuture[u] \notin {NoFuture, Pending}
    /\ lastStart' = [lastStart EXCEPT ![u] =
           Noted("start", @,
                 StartRecord(IF runFuture[u] = PyInt(1) THEN "failed" ELSE "started",
                             slurm_job_id[u], server_ip[u], server_port[u], Unset))]
    /\ runFuture' = [runFuture EXCEPT ![u] = NoFuture]
    /\ startPc' = [startPc EXCEPT ![u] = "idle"]
    /\ UNCHANGED <<jobs, identity, server, stopPc, executor, stopFuture, rest,
                   poll_ret, cancels>>

StartResume == \E u \in User : StartEnd(u)

\* poll(), which has no suspension point
PollObserve(u, stdout) ==
    LET state == check_slurm_job_state(slurm_job_id[u], stdout)
    IN  /\ LoopFree
        /\ u \in callers
        /\ <<u, "poll">> \in calls
        /\ lastCheck' = [lastCheck EXCEPT ![u] =
               IF slurm_job_id[u] # None
               THEN Noted("check", @, CheckRecord(slurm_job_id[u], stdout, "loop"))
               ELSE @]
        /\ IF slurm_job_id[u] # None
           THEN IF poll_alive(state)
                THEN /\ poll_ret' = [poll_ret EXCEPT ![u] = Noted("poll", @, None)]
                     /\ UNCHANGED identity
                ELSE /\ ClearState(u)
                     /\ poll_ret' = [poll_ret EXCEPT ![u] = Noted("poll", @, PyInt(1))]
           ELSE /\ ClearState(u)
                /\ poll_ret' = [poll_ret EXCEPT ![u] = Noted("poll", @, PyInt(1))]
        /\ UNCHANGED <<jobs, server, coroutines, executor, futures, setup, probe,
                       lastStart, cancels>>

Poll ==
    \E u \in User : \E stdout \in SqueueStateOuts(slurm_job_id[u]) : PollObserve(u, stdout)

\* a stop() that takes the graceful path whatever now says
StopCallGraceful(u, now) ==
    /\ LoopFree
    /\ u \in callers
    /\ <<u, "stop">> \in calls
    /\ stopPc[u] = "idle"
    /\ queue' = Append(queue, StopTask(u))
    /\ stopFuture' = [stopFuture EXCEPT ![u] = Pending]
    /\ stopPc' = [stopPc EXCEPT ![u] = "first"]
    /\ cancels' = [cancels EXCEPT ![u] = 0]
    /\ UNCHANGED <<jobs, identity, server, startPc, wtask, wpc, runFuture, rest,
                   poll_ret, lastStart>>

\* stop(now): without grace it only clears; with grace it hands the cancel
\* routine to the executor and suspends
StopCall(u, now) ==
    /\ LoopFree
    /\ u \in callers
    /\ <<u, "stop">> \in calls
    /\ stopPc[u] = "idle"
    /\ IF now
       THEN /\ ClearState(u)
            /\ UNCHANGED <<stopPc, queue, stopFuture, cancels>>
       ELSE /\ queue' = Append(queue, StopTask(u))
            /\ stopFuture' = [stopFuture EXCEPT ![u] = Pending]
            /\ stopPc' = [stopPc EXCEPT ![u] = "first"]
            /\ cancels' = [cancels EXCEPT ![u] = 0]
            /\ UNCHANGED identity
    /\ UNCHANGED <<jobs, server, startPc, wtask, wpc, runFuture, rest, poll_ret,
                   lastStart>>

StopBegin == \E u \in User : \E now \in BOOLEAN : StopCall(u, now)

\* stop(), resumed with is_stopped of the first stop_slurm_job()
StopAfterFirst(u) ==
    /\ LoopFree
    /\ stopPc[u] = "first"
    /\ stopFuture[u] \in {True, False}
    /\ IF stopFuture[u] = False
       THEN /\ queue' = Append(queue, StopTask(u))
            /\ stopFuture' = [stopFuture EXCEPT ![u] = Pending]
            /\ stopPc' = [stopPc EXCEPT ![u] = "second"]
            /\ UNCHANGED <<identity, cancels>>
       ELSE /\ ClearState(u)
            /\ stopFuture' = [stopFuture EXCEPT ![u] = NoFuture]
            /\ stopPc' = [stopPc EXCEPT ![u] = "idle"]
            /\ cancels' = [cancels EXCEPT ![u] = 0]
            /\ UNCHANGED queue
    /\ UNCHANGED <<jobs, server, startPc, wtask, wpc, runFuture, rest, poll_ret,
                   lastStart>>

StopResume == \E u \in User : StopAfterFirst(u)

\* stop(), resumed after the second stop_slurm_job()
StopAfterSecond(u) ==
    /\ LoopFree
    /\ stopPc[u] = "second"
    /\ stopFuture[u] \in {True, False}
    /\ ClearState(u)
    /\ stopFuture' = [stopFuture EXCEPT ![u] = NoFuture]
    /\ stopPc' = [stopPc EXCEPT ![u] = "idle"]
    /\ cancels' = [cancels EXCEPT ![u] = 0]
    /\ UNCHANGED <<jobs, server, startPc, executor, runFuture, rest, poll_ret,
                   lastStart>>

StopFinish == \E u \in User : StopAfterSecond(u)

\* ---------------------------------------------------- the executor's worker
\* a pool that starts a queued task while another is running
WorkerFreeAlways == queue # << >>

\* the one worker of the class-wide pool takes a task when it runs none
WorkerFree == wpc = "idle" /\ queue # << >>

\* _run_jupyterhub_singleuser up to the recording of the job id: the script
\* carries the port as its comment, sbatch answers, the last word is the id
Submit(accepted) ==
    LET t == Head(queue)
        ok == accepted /\ Len(jobs) < MaxJobs
        stdout == IF ok THEN SbatchOut(JobId(Len(jobs) + 1)) ELSE EmptyStr
    IN  /\ WorkerFree
        /\ t.kind = "run"
        /\ jobs' = IF ok THEN Append(jobs, NewJob(t.user, Str(t.port))) ELSE jobs
        /\ slurm_job_id' = [slurm_job_id EXCEPT ![t.user] = submitted_id(stdout)]
        /\ queue' = Tail(queue)
        /\ wtask' = t
        /\ wpc' = "query"
        /\ UNCHANGED <<slurm_port, server, coroutines, futures, rest, records>>

WorkerSubmit == \E accepted \in BOOLEAN : Submit(accepted)

\* one turn of the wait-loop: the state query and the branch on its result
\* (the code sleeps between the two when the turn follows a PENDING one)
WaitObserve(stdout) ==
    LET u == wtask.user
        branch == loop_branch(check_slurm_job_state(slurm_job_id[u], stdout))
    IN  /\ wpc = "query"
        /\ lastCheck' = [lastCheck EXCEPT ![u] =
               Noted("check", @, CheckRecord(slurm_job_id[u], stdout, "worker"))]
        /\ IF branch = "break"
           THEN /\ wpc' = "info"
                /\ UNCHANGED <<wtask, runFuture>>
           ELSE IF branch = "again"
           THEN /\ wpc' = "sleep"
                /\ UNCHANGED <<wtask, runFuture>>
           ELSE /\ runFuture' = [runFuture EXCEPT ![u] = PyInt(1)]
                /\ wpc' = "idle"
                /\ wtask' = NoTask
        /\ UNCHANGED <<jobs, identity, server, coroutines, queue, stopFuture, setup,
                       probe, records>>

WorkerQuery ==
    /\ wpc = "query"
    /\ \E stdout \in SqueueStateOuts(slurm_job_id[wtask.user]) : WaitObserve(stdout)

\* time.sleep(1) between two turns of the wait-loop
WorkerSleep ==
    /\ wpc = "sleep"
    /\ wpc' = "query"
    /\ UNCHANGED <<jobs, identity, server, coroutines, queue, wtask, futures, rest,
                   records>>

\* after the loop: resolve the placement, record it, return the job id
Place(stdout) ==
    LET u == wtask.user
        info == get_slurm_job_info(stdout)
    IN  /\ wpc = "info"
        /\ server_ip' = [server_ip EXCEPT ![u] = info[1]]
        /\ server_port' = [server_port EXCEPT ![u] = PyInt(wtask.port)]
        /\ runFuture' = [runFuture EXCEPT ![u] = slurm_job_id[u]]
        /\ wpc' = "idle"
        /\ wtask' = NoTask
        /\ UNCHANGED <<jobs, identity, coroutines, queue, stopFuture, rest, records>>

WorkerPlace ==
    /\ wpc = "info"
    /\ \E stdout \in NodeOuts(slurm_job_id[wtask.user]) : Place(stdout)

\* _stop_slurm_job with no job id: nothing to cancel
CancelNothing ==
    /\ WorkerFree
    /\ Head(queue).kind = "stop"
    /\ slurm_job_id[Head(queue).user] \in {None, EmptyStr}
    /\ stopFuture' = [stopFuture EXCEPT ![Head(queue).user] = True]
    /\ queue' = Tail(queue)
    /\ UNCHANGED <<jobs, identity, server, coroutines, wtask, wpc, runFuture, rest,
                   records>>

\* _stop_slurm_job with a job id: scancel, then is_stopped from its stdout
Cancel(reached, stdout) ==
    LET u == Head(queue).user
    IN  /\ WorkerFree
        /\ Head(queue).kind = "stop"
        /\ slurm_job_id[u] \notin {None, EmptyStr}
        /\ jobs' = IF reached THEN Cancelled(slurm_job_id[u]) ELSE jobs
        /\ cancels' = [cancels EXCEPT ![u] = @ + 1]
        /\ stopFuture' = [stopFuture EXCEPT ![u] =
               IF cancel_confirmed(stdout) THEN True ELSE False]
        /\ queue' = Tail(queue)
        /\ UNCHANGED <<identity, server, coroutines, wtask, wpc, runFuture, rest,
                       poll_ret, lastStart>>

WorkerCancel ==
    \E reached \in BOOLEAN : \E stdout \in ScancelOuts : Cancel(reached, stdout)

\* ------------------------------------------------------- persisted state
\* a key the state dict does not hold
Absent == <<"<absent>">>

\* get_state(): the dict the hub persists, with a key for each field that is
\* truthy; reading slurm_port before anything assigned it raises
get_state(u) ==
    [raised |-> slurm_port[u] = Unset,
     slurm_job_id |-> IF slurm_job_id[u] \notin {EmptyStr, None}
                      THEN slurm_job_id[u] ELSE Absent,
     slurm_port |-> IF slurm_port[u] \notin {EmptyStr, None, Unset}
                    THEN slurm_port[u] ELSE Absent]

\* load_state(state): the (slurm_job_id, slurm_port) it assigns
load_state(state) ==
    <<IF state.slurm_job_id = Absent THEN EmptyStr ELSE state.slurm_job_id,
      IF state.slurm_port = Absent THEN EmptyStr ELSE state.slurm_port>>

\* ---------------------------------------------------------- specification
EventLoop ==
    StartBegin \/ StartAttach \/ StartResume \/ Poll \/ StopBegin \/ StopResume
        \/ StopFinish

Worker ==
    WorkerSubmit \/ WorkerQuery \/ WorkerSleep \/ WorkerPlace \/ CancelNothing
        \/ WorkerCancel

Next == EventLoop \/ Worker \/ SchedulerStep

Spec == Init /\ [][Next]_vars

\* the same program, with the return values of poll() recorded
InitPoll == InitFor({"alice"}, {8891}, {"poll"})
SpecPoll == InitPoll /\ [][Next]_vars

\* the same program, with the end of every start() that submitted recorded
InitStart == InitFor({"alice"}, {8891}, {"start"})
SpecStart == InitStart /\ [][Next]_vars

\* ------------------------------------------------- discovery on its own
\* the jobs squeue may list for one user and job name: a job id, and the
\* comment the job was submitted with, which a job not submitted by the
\* spawner need not have
ListedJobs ==
    [id : {Str(FirstJobId), Str(FirstJobId + 1)},
     comment : {EmptyStr, Str(8891), Str(8892)}]

Listings == UNION {[1..n -> ListedJobs] : n \in 0..MaxLines}

\* the stdout of squeue for a sequence of listed jobs
RECURSIVE Rendered(_)
Rendered(lines) ==
    IF lines = << >> THEN EmptyStr
    ELSE ListingLine(Head(lines).id, Head(lines).comment) \o Rendered(Tail(lines))

InitDiscovery ==
    /\ jobs = << >>
    /\ slurm_job_id = [u \in User |-> EmptyStr]
    /\ slurm_port = [u \in User |-> Unset]
    /\ server_ip = [u \in User |-> Unset]
    /\ server_port = [u \in User |-> Unset]
    /\ startPc = [u \in User |-> "idle"]
    /\ stopPc = [u \in User |-> "idle"]
    /\ queue = << >>
    /\ wtask = NoTask
    /\ wpc = "idle"
    /\ runFuture = [u \in User |-> NoFuture]
    /\ stopFuture = [u \in User |-> NoFuture]
    /\ callers = {}
    /\ calls = {}
    /\ moves = {}
    /\ ports = {}
    /\ watch = {}
    /\ poll_ret = [u \in User |-> Unset]
    /\ lastStart = [u \in User |-> NoStart]
    /\ cancels = [u \in User |-> 0]
    /\ lastCheck = [u \in User |-> NoCheck]
    /\ listing \in Listings
    /\ answer = Unset

\* query_slurm_by_jobname() applied to the stdout of the listing
Discover ==
    /\ answer = Unset
    /\ answer' = query_slurm_by_jobname(Rendered(listing))
    /\ UNCHANGED <<jobs, identity, server, coroutines, executor, futures, setup,
                   records, lastCheck, listing>>

SpecDiscovery == InitDiscovery /\ [][Discover]_vars

\* the same program driven for two users, whose spawners share the executor:
\* the hub starts both, stops the first and polls the second; the scheduler
\* starts pending jobs and does nothing else to them
InitShared ==
    InitWith({"alice", "bob"},
             {<<"alice", "start">>, <<"alice", "stop">>, <<"bob", "start">>, <<"bob", "poll">>},
             {8891}, {}, {RUNNING})
SpecShared == InitShared /\ [][Next]_vars

\* the same program, with every check_slurm_job_state() call recorded
InitCheck == InitFor({"alice"}, {8891}, {"check"})
SpecCheck == InitCheck /\ [][Next]_vars

\* the same program, with the end of every start() that attached recorded, and
\* two ports to draw from
InitAttach == InitFor({"alice"}, {8891, 8892}, {"attach"})
SpecAttach == InitAttach /\ [][Next]_vars

\* ------------------------------------------------------------------ claims
\* what the scheduler reported to a state query made with a job id
Reported(stdout) == Strip(stdout)

\* the reports the contract names as not alive: a terminal token or nothing
NotAliveReports == TerminalTokens \cup {EmptyStr}

IdentityCleared(u) == slurm_job_id[u] = EmptyStr /\ slurm_port[u] = EmptyStr

Submitting(u) ==
    \/ \E i \in 1..Len(queue) : queue[i].kind = "run" /\ queue[i].user = u
    \/ wtask.kind = "run" /\ wtask.user = u

\* the words of a discovery listing
Words(stdout) == SplitWs(Strip(stdout))

\* C2: when discovery reports a job (id and port), start() submits nothing and
\* stores the id and port reported; two successive start() calls that attach to
\* the same job while the scheduler names its node leave the same stored job id
\* and the same placement.
C2_AttachIdempotent ==
    /\ [](\A u \in User : startPc[u] = "attach" => ~Submitting(u) /\ runFuture[u] = NoFuture)
    /\ [][\A u \in User :
             (startPc[u] = "idle" /\ startPc'[u] # "idle") =>
                 \A stdout \in SqueueListOuts(u) : \A p \in ports :
                     (StartDiscover(u, stdout, p) /\ Len(Words(stdout)) > 1) =>
                         /\ startPc'[u] = "attach"
                         /\ slurm_job_id'[u] = Words(stdout)[1]
                         /\ server_port'[u] = Words(stdout)[2]
                         /\ queue' = queue
                         /\ jobs' = jobs]_vars
    /\ [][\A u \in User :
             (/\ startPc[u] = "attach"
              /\ startPc'[u] = "idle"
              /\ lastStart[u].how = "attached"
              /\ lastStart[u].id = slurm_job_id[u]
              /\ lastStart[u].node = NodeName
              /\ lastStart'[u].node = NodeName) =>
                 /\ lastStart'[u].how = "attached"
                 /\ lastStart'[u].id = lastStart[u].id
                 /\ lastStart'[u].ip = lastStart[u].ip
                 /\ lastStart'[u].port = lastStart[u].port
                 /\ lastStart'[u].ip = server_ip'[u]
                 /\ lastStart'[u].port = server_port'[u]
                 /\ lastStart'[u].ip = NodeAddr
                 /\ jobs' = jobs]_vars

\* a second start() is attaching to the running job the first one attached to
C2_Witness ==
    /\ startPc["alice"] = "attach"
    /\ lastStart["alice"].how = "attached"
    /\ lastStart["alice"].id = slurm_job_id["alice"]
    /\ lastStart["alice"].ip = NodeAddr
    /\ lastStart["alice"].port = Str(8892)
    /\ server_port["alice"] = Str(8892)
    /\ Len(jobs) = 1
    /\ jobs[1].state = RUNNING

\* a job of this owner that the scheduler still holds as pending or running
LiveJobOf(u) ==
    \E j \in 1..Len(jobs) : jobs[j].owner = u /\ jobs[j].state \in {PENDING, RUNNING}

\* C3: start() never issues a submission while a job it submitted before for
\* the same owner and name is still pending or running, and the stored job id
\* is empty at the moment a submission is issued.
C3_OneLiveJob ==
    [][\A accepted \in BOOLEAN :
          Submit(accepted) =>
              /\ ~LiveJobOf(Head(queue).user)
              /\ slurm_job_id[Head(queue).user] = EmptyStr]_vars

\* the wait-loop of u's submission is about to query the job state
AtQuery(u) == wtask.kind = "run" /\ wtask.user = u /\ wpc = "query"

C5_FailureLeavesNothing ==
    \A u \in User :
        lastStart[u].how = "failed" =>
            /\ lastStart[u].id = EmptyStr
            /\ lastStart[u].ip = Unset
            /\ lastStart[u].port = Unset

\* C6: what start() returns after the wait-loop failed differs from what it
\* returns after attaching or starting, and is not a number.
C6_FailureReported ==
    \A u \in User :
        lastStart[u].how = "failed" =>
            /\ lastStart[u].ret # start_return("attached")
            /\ lastStart[u].ret # start_return("started")
            /\ Head(lastStart[u].ret) # IntMark

\* a step in which stop() of u returns
StopReturns(u) ==
    \/ StopCall(u, TRUE)
    \/ stopPc[u] # "idle" /\ stopPc'[u] = "idle"

\* C7: whenever stop() returns, graceful or not and whatever scancel answered,
\* the stored job id and port are empty.
C7_StopClears ==
    [][\A u \in User : StopReturns(u) => IdentityCleared(u)']_vars

\* a graceful stop has cancelled the job and returned with the identity cleared
C7_Witness ==
    /\ stopPc["alice"] = "idle"
    /\ IdentityCleared("alice")
    /\ Len(jobs) = 1
    /\ jobs[1].state = CANCELLED
    /\ queue = << >>
    /\ wpc = "idle"

\* the state the scheduler holds for the job stored for u
StoredJobState(u) == Strip(SqueueStateOut(slurm_job_id[u]))

\* C8: a graceful stop with a job id stored issues scancel at least once and at
\* most twice, and the second scancel only when the job is still not terminal
\* after the first.
C8_BoundedCancel ==
    /\ [](\A u \in User : cancels[u] <= 2)
    /\ [][\A u \in User :
             (/\ stopPc[u] = "first"
              /\ WorkerFree
              /\ Head(queue) = StopTask(u)
              /\ slurm_job_id[u] # EmptyStr
              /\ queue' = Tail(queue)) => cancels'[u] = 1]_vars
    /\ [][\A u \in User :
             (cancels[u] = 1 /\ cancels'[u] = 2) =>
                 StoredJobState(u) \notin TerminalTokens]_vars

\* the wait-loop of a start() of u is still in progress
WaitLoopRunning(u) ==
    wtask.kind = "run" /\ wtask.user = u /\ wpc \in {"query", "sleep"}

\* C9: while the wait-loop of a start() is in progress, no poll() of the same
\* spawner queries the scheduler or clears the identity, and no stop() clears it.
C9_StartExcludesPollAndStop ==
    [][\A u \in User :
          WaitLoopRunning(u) =>
              /\ ~(\E stdout \in SqueueStateOuts(slurm_job_id[u]) :
                       PollObserve(u, stdout) /\ slurm_job_id[u] # EmptyStr)
              /\ ~(slurm_job_id[u] # EmptyStr /\ IdentityCleared(u)' /\ wpc' = wpc)]_vars

\* the scheduling the code relies on: the worker thread runs, and the event
\* loop resumes a coroutine whose future is done; the hub's calls and the
\* scheduler's moves are under no obligation
Resumed(u) ==
    /\ WF_vars(\E stdout \in NodeOuts(slurm_job_id[u]) : StartResolve(u, stdout))
    /\ WF_vars(StartEnd(u))
    /\ WF_vars(StopAfterFirst(u))
    /\ WF_vars(StopAfterSecond(u))
FairSpec == Spec /\ WF_vars(Worker) /\ \A u \in User : Resumed(u)

\* stop(graceful) of u was called while u's wait-loop waits on a recorded job
StopDuringWait(u) ==
    /\ stopPc[u] = "first"
    /\ WaitLoopRunning(u)
    /\ slurm_job_id[u] # EmptyStr

\* C10: a graceful stop() requested while the wait-loop is still waiting on a
\* recorded job eventually issues its cancel and returns, however long the
\* scheduler reports PENDING.
C10_StopServiceable ==
    \A u \in User : StopDuringWait(u) ~> (stopPc[u] = "idle")

\* a step in which u's spawner calls check_slurm_job_state(), from poll() or
\* from the wait-loop, and squeue would answer stdout
StateCheck(u, stdout) ==
    \/ PollObserve(u, stdout) /\ slurm_job_id[u] # None
    \/ AtQuery(u) /\ WaitObserve(stdout)

\* C11: a check_slurm_job_state() call made with an empty job id runs no
\* external command and returns the empty result; with a job id it runs one.
C11_NoCommandWithoutId ==
    [][\A u \in User : \A stdout \in SqueueStateOuts(slurm_job_id[u]) :
          StateCheck(u, stdout) =>
              /\ slurm_job_id[u] \in {None, EmptyStr} =>
                     /\ lastCheck'[u].cmds = 0
                     /\ lastCheck'[u].out = EmptyStr
              /\ slurm_job_id[u] \notin {None, EmptyStr} => lastCheck'[u].cmds = 1]_vars

\* poll() checked the state with no job id stored while a job of the user was
\* running: no command ran and nothing was reported
C11_Witness ==
    /\ lastCheck["alice"].id = EmptyStr
    /\ lastCheck["alice"].thread = "loop"
    /\ lastCheck["alice"].cmds = 0
    /\ lastCheck["alice"].out = EmptyStr
    /\ Len(jobs) = 1
    /\ jobs[1].state = RUNNING

\* the class the token table gives a scheduler answer
JobClass(text) ==
    IF text = RUNNING THEN "Running"
    ELSE IF text \in {PENDING, CONFIGURING} THEN "Pending"
    ELSE IF text \in {CANCELLED, COMPLETED, FAILED, COMPLETING} THEN "Terminal"
    ELSE "Unknown"

\* C12: poll() reports alive exactly when the answer is RUNNING, PENDING or
\* CONFIGURING; the wait-loop leaves exactly on RUNNING and waits on exactly
\* PENDING or CONFIGURING; every other answer counts as not running.
C12_TokenTable ==
    [][\A u \in User : \A stdout \in SqueueStateOuts(slurm_job_id[u]) :
          slurm_job_id[u] # EmptyStr =>
              LET class == JobClass(Reported(stdout))
              IN  /\ PollObserve(u, stdout) =>
                         /\ class \in {"Running", "Pending"} <=> poll_ret'[u] = None
                         /\ class \in {"Terminal", "Unknown"} <=> poll_ret'[u] = PyInt(1)
                  /\ (AtQuery(u) /\ WaitObserve(stdout)) =>
                         /\ class = "Running" <=> wpc' = "info"
                         /\ class = "Pending" <=> wpc' = "sleep"
                         /\ class \in {"Terminal", "Unknown"} <=> wpc' = "idle"]_vars

\* the discovery command of u failed: the scheduler has a job to list for u,
\* and the command wrote nothing
DiscoveryFailed(u, stdout) == stdout = EmptyStr /\ SqueueListOut(u) # EmptyStr

\* C13: a start() whose discovery command failed does not take the failure for
\* "no job": it hands no submission to the executor.
C13_DiscoveryFailure ==
    [][\A u \in User : \A stdout \in SqueueListOuts(u) : \A p \in ports :
          (DiscoveryFailed(u, stdout) /\ StartDiscover(u, stdout, p)) =>
              /\ queue' = queue
              /\ ~Submitting(u)']_vars

\* C14: discovery never raises; a listing with no line gives ('', ''), and a
\* listing with one line or more gives the job id and the comment of its first
\* line, also when that line has no comment.
C14_DiscoveryByMatches ==
    answer # Unset =>
        /\ answer # IndexError
        /\ listing = << >> => answer = <<EmptyStr, EmptyStr>>
        /\ listing # << >> => answer = <<listing[1].id, listing[1].comment>>

\* no start() of u is in progress and a job id is stored
Attached(u) == startPc[u] = "idle" /\ ~Submitting(u) /\ slurm_job_id[u] # EmptyStr

\* the port of the job stored for u, as text: the comment the scheduler holds
PortOfStoredJob(u) ==
    LET j == CHOOSE k \in JobsNamed(slurm_job_id[u]) : TRUE
    IN  jobs[j].comment

\* C15: while a job is attached get_state() gives a record with its job id and
\* its port, which load_state() reads back as the same two values; once the
\* identity is cleared the record holds neither.
C15_StateRoundTrip ==
    \A u \in User :
        /\ (Attached(u) /\ JobsNamed(slurm_job_id[u]) # {}) =>
               /\ ~get_state(u).raised
               /\ get_state(u).slurm_job_id = slurm_job_id[u]
               /\ get_state(u).slurm_port = PortOfStoredJob(u)
               /\ load_state(get_state(u)) = <<slurm_job_id[u], PortOfStoredJob(u)>>
        /\ IdentityCleared(u) =>
               /\ get_state(u).slurm_job_id = Absent
               /\ get_state(u).slurm_port = Absent

\* the jobs of u the scheduler lists
ListedFor(u) == {j \in 1..Len(jobs) : jobs[j].owner = u /\ jobs[j].state \in ActiveTokens}

\* C16: a job submitted with port p carries the text of p as its comment and
\* gets the id sbatch acknowledged; a later discovery that lists that job alone
\* returns that id and that port, and the start() that attaches records them.
C16_PortRoundTrip ==
    /\ [][\A accepted \in BOOLEAN :
             (Submit(accepted) /\ Len(jobs') = Len(jobs) + 1) =>
                 /\ jobs'[Len(jobs')].comment = Str(Head(queue).port)
                 /\ jobs'[Len(jobs')].owner = Head(queue).user
                 /\ slurm_job_id'[Head(queue).user] = Str(JobId(Len(jobs')))]_vars
    /\ [][\A u \in User : \A p \in ports : \A j \in ListedFor(u) :
             (ListedFor(u) = {j} /\ StartDiscover(u, SqueueListOut(u), p)) =>
                 /\ query_slurm_by_jobname(SqueueListOut(u)) = <<Str(JobId(j)), jobs[j].comment>>
                 /\ slurm_job_id'[u] = Str(JobId(j))
                 /\ server_port'[u] = jobs[j].comment
                 /\ \E q \in ports : server_port'[u] = Str(q)
                 /\ startPc'[u] = "attach"]_vars

\* a start() has attached to the second job, submitted with port 8891, after
\* the first, submitted with port 8892, was gone
C16_Witness ==
    /\ Len(jobs) = 2
    /\ jobs[1].comment = Str(8892)
    /\ jobs[1].state = FAILED
    /\ jobs[2].comment = Str(8891)
    /\ jobs[2].state = RUNNING
    /\ lastStart["alice"].how = "attached"
    /\ lastStart["alice"].id = Str(FirstJobId + 1)
    /\ lastStart["alice"].port = Str(8891)
    /\ server_port["alice"] = Str(8891)
    /\ startPc["alice"] = "idle"

\* C17: every external command runs in the executor's worker, never on the
\* thread of the caller: a state check that ran squeue was made by the worker.
C17_CommandsOnWorker ==
    \A u \in User : lastCheck[u].cmds > 0 => lastCheck[u].thread = "worker"

\* C18: the submission that found its job RUNNING ends with the address of
\* the job's node recorded, never None, and with the port it was given.
C18_CompletePlacement ==
    [][wpc = "info" =>
          \A stdout \in NodeOuts(slurm_job_id[wtask.user]) :
              Place(stdout) =>
                  /\ server_ip'[wtask.user] # None
                  /\ server_ip'[wtask.user] = NodeAddr
                  /\ server_port'[wtask.user] = PyInt(wtask.port)
                  /\ runFuture'[wtask.user] # PyInt(1)]_vars

\* C19: under fair scheduling of the worker and of the resumption of start(), a
\* start() whose wait-loop runs while the scheduler no longer holds its job as
\* PENDING ends; and the loop keeps no count: while the job is PENDING and
\* squeue answers, one more turn of sleep and query is always possible.
C19_WaitLoopUnbounded ==
    /\ \A u \in User :
           (WaitLoopRunning(u) /\ StoredJobState(u) # PENDING) ~> (startPc[u] = "idle")
    /\ [](\A u \in User :
             (AtQuery(u) /\ StoredJobState(u) = PENDING) =>
                 ENABLED (WaitObserve(SqueueStateOut(slurm_job_id[u])) /\ wpc' = "sleep"))
    /\ [](wpc = "sleep" => ENABLED (WorkerSleep /\ wpc' = "query"))

\* the wait-loop sleeps after a PENDING answer while its job has already failed
C19_Witness ==
    /\ wpc = "sleep"
    /\ wtask.user = "alice"
    /\ startPc["alice"] = "waiting"
    /\ slurm_job_id["alice"] = Str(FirstJobId)
    /\ jobs[1].state = FAILED

\* the worker takes u's cancel routine off the queue
CancelRoutineRuns(u) ==
    WorkerFree /\ Head(queue) = StopTask(u) /\ queue' = Tail(queue)

\* C20: stop(now=True) issues no scancel and hands nothing to the executor: it
\* clears the identity and leaves everything else, the scheduler's jobs
\* included, as it was.  A graceful stop() whose cancel routine finds no job id
\* issues no scancel either, leaves the jobs untouched, reports True, and
\* stop() then clears the identity without a second attempt.
C20_StopWithoutCancel ==
    /\ [][\A u \in User :
             StopCall(u, TRUE) =>
                 /\ IdentityCleared(u)'
                 /\ UNCHANGED <<jobs, server, coroutines, executor, futures, cancels>>]_vars
    /\ [][\A u \in User :
             (CancelRoutineRuns(u) /\ slurm_job_id[u] = EmptyStr) =>
                 /\ stopFuture'[u] = True
                 /\ UNCHANGED <<jobs, identity, server, coroutines, cancels>>]_vars
    /\ [][\A u \in User :
             (StopAfterFirst(u) /\ stopFuture[u] = True) =>
                 /\ IdentityCleared(u)'
                 /\ stopPc'[u] = "idle"
                 /\ UNCHANGED <<jobs, server, startPc, executor>>]_vars

\* the cancel routine of a graceful stop() found no job id and reported True
\* while the user's job went on running
C20_Witness ==
    /\ stopPc["alice"] = "first"
    /\ stopFuture["alice"] = True
    /\ slurm_job_id["alice"] = EmptyStr
    /\ cancels["alice"] = 0
    /\ Len(jobs) = 1
    /\ jobs[1].state = RUNNING

\* the worker is running a task of u
TaskRunning(u) == wtask.kind # "none" /\ wtask.user = u /\ wpc # "idle"

\* a step in which the worker takes the next task off the queue
TaskBegins == queue # << >> /\ queue' = Tail(queue)

\* C21: the tasks of the shared one-worker executor never overlap: a task is
\* taken off the queue only when none is running, and while the wait-loop of
\* one user's submission runs, no other user's submission or cancel task makes
\* any progress: its future stays pending and no further job is submitted.
C21_TasksNeverOverlap ==
    /\ [](wpc = "idle" <=> wtask = NoTask)
    /\ [][TaskBegins => (wtask = NoTask /\ wpc = "idle")]_vars
    /\ [][\A u \in User : \A v \in User \ {u} :
             WaitLoopRunning(u) =>
                 /\ ~TaskRunning(v)
                 /\ runFuture[v] = Pending => runFuture'[v] = Pending
                 /\ stopFuture[v] = Pending => stopFuture'[v] = Pending
                 /\ Len(jobs') = Len(jobs)]_vars

\* bob's wait-loop sleeps on his pending job while alice's cancel task and her
\* stop() wait behind it
C21_Witness ==
    /\ wtask = RunTask("bob", 8891)
    /\ wpc = "sleep"
    /\ Len(jobs) = 2
    /\ jobs[1].owner = "alice"
    /\ jobs[2].owner = "bob"
    /\ jobs[2].state = PENDING
    /\ queue = <<StopTask("alice")>>
    /\ stopPc["alice"] = "first"
    /\ stopFuture["alice"] = Pending

====
